---------------------------- MODULE Spec2Model ----------------------------
(***************************************************************************)
(* Model of the secure thumbnail-generation Lambda                         *)
(*   src/ImageProcessing/src/lambda-functions/thumbnail/index.js           *)
(*                                                                         *)
(* One invocation of exports.handler is a state machine whose steps are    *)
(* the synchronous stretches of the handler between two awaits.  The       *)
(* event, process.env and the stored S3 object are chosen by Init; the     *)
(* failures of the SDK, of the body stream and of the encoder are chosen   *)
(* by the action at which they surface.                                    *)
(*                                                                         *)
(* Strings that the code inspects character by character (the S3 key) are  *)
(* sequences of character codes, so the regular expression's ranges, the   *)
(* '+' replacement and percent-decoding are computed as the code computes  *)
(* them.  Strings that the code only passes around are TLA+ strings.       *)
(* Arithmetic of processImage is exact rational arithmetic.                *)
(***************************************************************************)
EXTENDS Integers, Sequences, FiniteSets, TLC

VARIABLES
    env,        \* process.env, as read when the module is loaded
    event,      \* the Lambda event
    s3Object,   \* what the source bucket holds under the requested key
    pc,         \* the handler's position
    srcKey,     \* handler: const srcKey
    getCalls,   \* GetObjectCommand inputs sent, in order
    putCalls,   \* PutObjectCommand inputs sent, in order
    chunksRead, \* chunks the for-await loop has taken from Body
    totalSize,  \* streamToBuffer: let totalSize
    chunks,     \* streamToBuffer: const chunks (the length of each)
    imageBuffer,\* handler: let imageBuffer (its length; -1 while undefined)
    processed,  \* what processImage left in `image` and returned
    destKey,    \* handler: const destKey
    result,     \* the value the handler's promise resolved with
    thrown,     \* every exception raised in this invocation, in order
    logged,     \* console.error arguments, in order
    trace       \* the stages completed, in order

vars == <<env, event, s3Object, pc, srcKey, getCalls, putCalls, chunksRead,
          totalSize, chunks, imageBuffer, processed, destKey, result,
          thrown, logged, trace>>

---------------------------------------------------------------------------
(* Bounds of the model *)

MaxKeyLen == 3

MaxChunks == 3

\* space % + , . 2 E
Alphabet == {32, 37, 43, 44, 46, 50, 69}

Keys == UNION {[1..n -> Alphabet] : n \in 0..MaxKeyLen}

Min(a, b) == IF a <= b THEN a ELSE b

RECURSIVE Sum(_)
Sum(s) == IF s = <<>> THEN 0 ELSE Head(s) + Sum(Tail(s))

---------------------------------------------------------------------------
(* CONFIG, lines 6-13.  parseInt of an unset or non-numeric variable is    *)
(* NaN; NaN and 0 are both falsy, so `parseInt(x) || d` is d for either.   *)
(* env holds the parsed integer, 0 standing for NaN as well.               *)

OrDefault(n, d) == IF n = 0 THEN d ELSE n

CONFIG ==
    [maxWidth        |-> Min(OrDefault(env.MAX_WIDTH, 250), 2000),
     maxHeight       |-> Min(OrDefault(env.MAX_HEIGHT, 250), 2000),
     quality         |-> Min(OrDefault(env.IMAGE_QUALITY, 80), 100),
     thumbnailBucket |-> env.THUMBNAIL_BUCKET,
     maxFileSize     |-> 15 * 1024 * 1024,
     allowedMimeTypes |-> {"image/jpeg", "image/png", "image/gif"}]

---------------------------------------------------------------------------
(* Exceptions *)

\* new Error(message): name is "Error"
NewError(message, stack) ==
    [name |-> "Error", message |-> message, stack |-> stack]

\* what the engine raises for a property read on null
NullEventError ==
    [name |-> "TypeError",
     message |-> "Cannot read properties of null (reading 's3Bucket')",
     stack |-> "TypeError at validateInput (index.js:27)"]

URIError ==
    [name |-> "URIError", message |-> "URI malformed",
     stack |-> "URIError at decodeURIComponent"]

\* rejections of s3Client.send and errors of the Body stream
ProviderErrors ==
    {[name |-> "NoSuchKey", message |-> "The specified key does not exist.",
      stack |-> "NoSuchKey at S3Client.send"],
     [name |-> "AccessDenied", message |-> "Access Denied",
      stack |-> "AccessDenied at S3Client.send"]}

\* rejections of image.getBufferAsync
EncoderErrors ==
    {[name |-> "Error", message |-> "Unsupported MIME type: image/bmp",
      stack |-> "Error at Jimp.getBuffer"]}

Pass == [ok |-> TRUE, error |-> NewError("", "")]

Throw(e) == [ok |-> FALSE, error |-> e]

---------------------------------------------------------------------------
(* validateInput, lines 25-51 *)

\* KeyCharClass with '%' let through as well
KeyCharClass_WithPercent(c) ==
    \/ c \in 97..122
    \/ c \in 65..90
    \/ c \in 48..57
    \/ c \in {33, 95, 46, 42, 39, 40, 37}
    \/ c \in 41..47

\* /^[a-zA-Z0-9!_.*'()-\/]+$/ : the class holds a-z, A-Z, 0-9, the
\* characters ! _ . * ' ( and the range from ')' (41) to '/' (47)
KeyCharClass(c) ==
    \/ c \in 97..122
    \/ c \in 65..90
    \/ c \in 48..57
    \/ c \in {33, 95, 46, 42, 39, 40}
    \/ c \in 41..47

keyPatternTest(s) == Len(s) >= 1 /\ \A i \in 1..Len(s) : KeyCharClass(s[i])

\* String.prototype.includes('..')
IncludesDotDot(s) == \E i \in 1..(Len(s) - 1) : s[i] = 46 /\ s[i + 1] = 46

\* validateInput without the check of lines 42-45
validateInput_NoTraversalCheck(ev) ==
    IF ~ev.defined THEN Throw(NullEventError)
    ELSE IF ev.s3Bucket = "" \/ ev.s3Key = <<>>
    THEN Throw(NewError("Missing required parameters", "index.js:28"))
    ELSE IF CONFIG.thumbnailBucket = ""
    THEN Throw(NewError("Destination bucket not configured", "index.js:33"))
    ELSE IF ~keyPatternTest(ev.s3Key)
    THEN Throw(NewError("Invalid characters in S3 key", "index.js:39"))
    ELSE IF Len(ev.s3Key) > 1024
    THEN Throw(NewError("S3 key exceeds maximum length", "index.js:49"))
    ELSE Pass

validateInput(ev) ==
    IF ~ev.defined THEN Throw(NullEventError)
    ELSE IF ev.s3Bucket = "" \/ ev.s3Key = <<>>
    THEN Throw(NewError("Missing required parameters", "index.js:28"))
    ELSE IF CONFIG.thumbnailBucket = ""
    THEN Throw(NewError("Destination bucket not configured", "index.js:33"))
    ELSE IF ~keyPatternTest(ev.s3Key)
    THEN Throw(NewError("Invalid characters in S3 key", "index.js:39"))
    ELSE IF IncludesDotDot(ev.s3Key)
    THEN Throw(NewError("Path traversal detected", "index.js:44"))
    ELSE IF Len(ev.s3Key) > 1024
    THEN Throw(NewError("S3 key exceeds maximum length", "index.js:49"))
    ELSE Pass

---------------------------------------------------------------------------
(* Decoding of the key, line 144 *)

\* s3Key.replace(/\+/g, ' ')
ReplacePlus(s) == [i \in 1..Len(s) |-> IF s[i] = 43 THEN 32 ELSE s[i]]

IsHex(c) == c \in 48..57 \/ c \in 65..70 \/ c \in 97..102

HexVal(c) == IF c \in 48..57 THEN c - 48
             ELSE IF c \in 65..70 THEN c - 55 ELSE c - 87

\* the octet written as %XX at position i of s, or -1
OctetAt(s, i) ==
    IF i + 2 <= Len(s) /\ s[i] = 37 /\ IsHex(s[i + 1]) /\ IsHex(s[i + 2])
    THEN 16 * HexVal(s[i + 1]) + HexVal(s[i + 2])
    ELSE -1

\* length of the UTF-8 sequence a leading octet announces, 0 if it is none
Utf8Len(b) == IF b < 128 THEN 1
              ELSE IF b \in 194..223 THEN 2
              ELSE IF b \in 224..239 THEN 3
              ELSE IF b \in 240..244 THEN 4 ELSE 0

\* the n octets starting at position i are a lead and n-1 continuations
Utf8Ok(s, i, n) ==
    /\ n >= 1
    /\ \A k \in 1..(n - 1) : OctetAt(s, i + 3 * k) \in 128..191
    /\ (n = 3 /\ OctetAt(s, i) = 224) => OctetAt(s, i + 3) >= 160
    /\ (n = 3 /\ OctetAt(s, i) = 237) => OctetAt(s, i + 3) <= 159
    /\ (n = 4 /\ OctetAt(s, i) = 240) => OctetAt(s, i + 3) >= 144
    /\ (n = 4 /\ OctetAt(s, i) = 244) => OctetAt(s, i + 3) <= 143

\* the code point of the sequence of n octets at position i
Utf8Value(s, i, n) ==
    LET b == OctetAt(s, i)
        c(k) == OctetAt(s, i + 3 * k) - 128
    IN  IF n = 1 THEN b
        ELSE IF n = 2 THEN (b - 192) * 64 + c(1)
        ELSE IF n = 3 THEN (b - 224) * 4096 + c(1) * 64 + c(2)
        ELSE (b - 240) * 262144 + c(1) * 4096 + c(2) * 64 + c(3)

\* decodeURIComponent: [ok, value]; ok is FALSE where it throws URIError
RECURSIVE decodeURIComponent(_)
decodeURIComponent(s) ==
    IF s = <<>> THEN [ok |-> TRUE, value |-> <<>>]
    ELSE IF s[1] # 37
    THEN LET rest == decodeURIComponent(Tail(s))
         IN  [ok |-> rest.ok, value |-> <<s[1]>> \o rest.value]
    ELSE LET b == OctetAt(s, 1)
             n == IF b < 0 THEN 0 ELSE Utf8Len(b)
         IN  IF n = 0 \/ ~Utf8Ok(s, 1, n)
             THEN [ok |-> FALSE, value |-> <<>>]
             ELSE LET rest == decodeURIComponent(SubSeq(s, 3 * n + 1, Len(s)))
                  IN  [ok |-> rest.ok,
                       value |-> <<Utf8Value(s, 1, n)>> \o rest.value]

---------------------------------------------------------------------------
(* generateSecureFilename, lines 77-82 *)

ToLowerCase(s) == [i \in 1..Len(s) |-> IF s[i] \in 65..90 THEN s[i] + 32 ELSE s[i]]

\* originalKey.split('.').pop(): what follows the last '.', or the whole key
RECURSIVE LastSegment(_)
LastSegment(s) ==
    IF \E i \in 1..Len(s) : s[i] = 46
    THEN LastSegment(SubSeq(s, (CHOOSE i \in 1..Len(s) : s[i] = 46) + 1, Len(s)))
    ELSE s

\* crypto.randomBytes(8).toString('hex')
Randoms == {"00c0ffee00c0ffee", "deadbeefdeadbeef"}

generateSecureFilename(originalKey, timestamp, random) ==
    [timestamp |-> timestamp, random |-> random,
     extension |-> ToLowerCase(LastSegment(originalKey))]

---------------------------------------------------------------------------
(* processImage, lines 89-133 *)

\* a ratio num/den with den > 0
Ratio(num, den) == [num |-> num, den |-> den]

RatioMin(a, b) == IF a.num * b.den <= b.num * a.den THEN a ELSE b

\* Math.round(num/den) for num >= 0, den > 0: floor(x + 1/2)
MathRound(num, den) == (2 * num + den) \div (2 * den)

\* lines 109-110
ClampDimension(d) == Min(d, 10000)

\* lines 113-117
scalingFactor(originalWidth, originalHeight) ==
    RatioMin(RatioMin(Ratio(CONFIG.maxWidth, originalWidth),
                      Ratio(CONFIG.maxHeight, originalHeight)),
             Ratio(1, 1))

\* lines 109-131, for a decoded image of the given MIME type and size:
\* the MIME type returned and the size the image is left with
Transform(img) ==
    LET originalWidth  == ClampDimension(img.width)
        originalHeight == ClampDimension(img.height)
        sf     == scalingFactor(originalWidth, originalHeight)
        width  == MathRound(sf.num * originalWidth, sf.den)
        height == MathRound(sf.num * originalHeight, sf.den)
        resize == width < originalWidth \/ height < originalHeight
    IN  [mime    |-> img.mime,
         width   |-> IF resize THEN width ELSE img.width,
         height  |-> IF resize THEN height ELSE img.height,
         resized |-> resize,
         quality |-> CONFIG.quality]

NoImage == [mime |-> "", width |-> 0, height |-> 0, resized |-> FALSE,
            quality |-> 0]

---------------------------------------------------------------------------
(* The handler's result and its logging, lines 195-215 and 235-242 *)

NoResult == [statusCode |-> 0]

sanitizeError(error) ==
    [message |-> error.message,
     type    |-> error.name,
     stack   |-> IF env.NODE_ENV = "development" THEN error.stack
                 ELSE "undefined"]

\* ErrorResponse handing out the exception's message as the type
ErrorResponse_LeakingMessage(error) ==
    [statusCode |-> 500,
     error |-> [message |-> "Image processing failed", type |-> error.message]]

\* lines 207-213
ErrorResponse(error) ==
    [statusCode |-> 500,
     error |-> [message |-> "Image processing failed", type |-> error.name]]

\* lines 195-202
SuccessResponse(key, mime) ==
    [statusCode |-> 200,
     thumbnail |-> [s3key |-> key, s3bucket |-> CONFIG.thumbnailBucket,
                    contentType |-> mime]]

\* the outer catch, lines 204-214: `raised` are the exceptions raised on
\* the way, `prior` what an inner catch logged, `error` the one caught here
OuterCatch(raised, prior, error) ==
    /\ thrown' = thrown \o raised
    /\ logged' = logged \o prior \o <<<<"Error:", sanitizeError(error)>>>>
    /\ result' = ErrorResponse(error)
    /\ pc' = "returned"

\* the catch around the fetch, lines 161-164, then the outer catch
FetchCatch(cause) ==
    LET rethrown == NewError("Failed to fetch image", "index.js:163")
    IN  OuterCatch(<<cause, rethrown>>,
                   <<<<"S3 fetch error:", sanitizeError(cause)>>>>, rethrown)

\* UploadCatch that logs the failure and lets the handler go on to return
UploadCatch_Swallowing(cause) ==
    /\ thrown' = Append(thrown, cause)
    /\ logged' = Append(logged, <<"S3 upload error:", sanitizeError(cause)>>)
    /\ result' = SuccessResponse([userId |-> event.userId, file |-> destKey],
                                 processed.mime)
    /\ pc' = "returned"

\* the catch around the upload, lines 190-193, then the outer catch
UploadCatch(cause) ==
    LET rethrown == NewError("Failed to upload thumbnail", "index.js:192")
    IN  OuterCatch(<<cause, rethrown>>,
                   <<<<"S3 upload error:", sanitizeError(cause)>>>>, rethrown)

---------------------------------------------------------------------------
(* exports.handler, lines 135-215 *)

\* lines 136-153: validate, decode the key, send GetObject
Start ==
    /\ pc = "start"
    /\ LET v == validateInput(event)
           d == decodeURIComponent(ReplacePlus(event.s3Key))
       IN  IF ~v.ok
           THEN /\ OuterCatch(<<v.error>>, <<>>, v.error)
                /\ UNCHANGED <<srcKey, getCalls, trace>>
           ELSE IF ~d.ok
           THEN /\ OuterCatch(<<URIError>>, <<>>, URIError)
                /\ trace' = Append(trace, "Validator")
                /\ UNCHANGED <<srcKey, getCalls>>
           ELSE /\ srcKey' = d.value
                /\ getCalls' = Append(getCalls,
                                      [Bucket |-> event.s3Bucket, Key |-> d.value])
                /\ trace' = trace \o <<"Validator", "GetObject">>
                /\ pc' = "awaitGetObject"
                /\ UNCHANGED <<result, thrown, logged>>
    /\ UNCHANGED <<env, event, s3Object, putCalls, chunksRead, totalSize,
                   chunks, imageBuffer, processed, destKey>>

\* line 150 rejects: the SDK gave up
GetObjectRejects ==
    /\ pc = "awaitGetObject"
    /\ \E e \in ProviderErrors : FetchCatch(e)
    /\ UNCHANGED <<env, event, s3Object, srcKey, getCalls, putCalls,
                   chunksRead, totalSize, chunks, imageBuffer, processed,
                   destKey, trace>>

\* GetObjectResolves that starts reading whatever the content type
GetObjectResolves_ReadsFirst ==
    /\ pc = "awaitGetObject"
    /\ totalSize' = 0
    /\ chunks' = <<>>
    /\ pc' = "streaming"
    /\ UNCHANGED <<env, event, s3Object, srcKey, getCalls, putCalls,
                   chunksRead, imageBuffer, processed, destKey, trace,
                   result, thrown, logged>>

\* lines 150-160: the response arrives; the content type is checked and
\* streamToBuffer (lines 58-61) starts
GetObjectResolves ==
    /\ pc = "awaitGetObject"
    /\ IF s3Object.ContentType \notin CONFIG.allowedMimeTypes
       THEN /\ FetchCatch(NewError("Invalid content type", "index.js:157"))
            /\ UNCHANGED <<totalSize, chunks>>
       ELSE /\ totalSize' = 0
            /\ chunks' = <<>>
            /\ pc' = "streaming"
            /\ UNCHANGED <<result, thrown, logged>>
    /\ UNCHANGED <<env, event, s3Object, srcKey, getCalls, putCalls,
                   chunksRead, imageBuffer, processed, destKey, trace>>

\* lines 62-68: one turn of the for-await loop
StreamChunk ==
    /\ pc = "streaming"
    /\ chunksRead < Len(s3Object.chunks)
    /\ LET chunk == s3Object.chunks[chunksRead + 1]
       IN  /\ chunksRead' = chunksRead + 1
           /\ totalSize' = totalSize + chunk
           /\ IF totalSize + chunk > CONFIG.maxFileSize
              THEN /\ FetchCatch(NewError("File size exceeds maximum limit",
                                          "index.js:65"))
                   /\ UNCHANGED chunks
              ELSE /\ chunks' = Append(chunks, chunk)
                   /\ UNCHANGED <<pc, result, thrown, logged>>
    /\ UNCHANGED <<env, event, s3Object, srcKey, getCalls, putCalls,
                   imageBuffer, processed, destKey, trace>>

\* line 62: the stream fails while it is read
StreamFails ==
    /\ pc = "streaming"
    /\ \E e \in ProviderErrors : FetchCatch(e)
    /\ UNCHANGED <<env, event, s3Object, srcKey, getCalls, putCalls,
                   chunksRead, totalSize, chunks, imageBuffer, processed,
                   destKey, trace>>

\* lines 69, 160, 167, 91-97: the stream ends, the buffer is handed to
\* processImage, which checks its size and calls Jimp.read
StreamEnds ==
    /\ pc = "streaming"
    /\ chunksRead = Len(s3Object.chunks)
    /\ imageBuffer' = Sum(chunks)
    /\ trace' = Append(trace, "Fetched")
    /\ IF Sum(chunks) > CONFIG.maxFileSize
       THEN LET e == NewError("Input file too large", "index.js:92")
            IN  OuterCatch(<<e>>, <<>>, e)
       ELSE /\ pc' = "decoding"
            /\ UNCHANGED <<result, thrown, logged>>
    /\ UNCHANGED <<env, event, s3Object, srcKey, getCalls, putCalls,
                   chunksRead, totalSize, chunks, processed, destKey>>

\* lines 97-130: Jimp.read settles; the MIME type is checked, the image
\* scaled, and getBufferAsync called
JimpReadSettles ==
    /\ pc = "decoding"
    /\ IF ~s3Object.image.decodes
       THEN LET e == NewError("Invalid image format", "index.js:99")
            IN  /\ OuterCatch(<<[name |-> "Error",
                                 message |-> "Could not find MIME for Buffer",
                                 stack |-> "Error at Jimp.read"], e>>, <<>>, e)
                /\ UNCHANGED processed
       ELSE IF s3Object.image.mime \notin CONFIG.allowedMimeTypes
       THEN LET e == NewError("Unsupported image type", "index.js:105")
            IN  /\ OuterCatch(<<e>>, <<>>, e)
                /\ UNCHANGED processed
       ELSE /\ processed' = Transform(s3Object.image)
            /\ pc' = "encoding"
            /\ UNCHANGED <<result, thrown, logged>>
    /\ UNCHANGED <<env, event, s3Object, srcKey, getCalls, putCalls,
                   chunksRead, totalSize, chunks, imageBuffer, destKey, trace>>

\* line 130 rejects: the encoder failed; nothing wraps this exception
GetBufferRejects ==
    /\ pc = "encoding"
    /\ \E e \in EncoderErrors : OuterCatch(<<e>>, <<>>, e)
    /\ UNCHANGED <<env, event, s3Object, srcKey, getCalls, putCalls,
                   chunksRead, totalSize, chunks, imageBuffer, processed,
                   destKey, trace>>

\* lines 130-188: the encoded buffer arrives, the name is generated and
\* PutObject is sent
GetBufferResolves ==
    /\ pc = "encoding"
    /\ \E random \in Randoms :
         LET name == generateSecureFilename(srcKey, "Date.now()", random)
         IN  /\ destKey' = name
             /\ putCalls' = Append(putCalls,
                   [Bucket      |-> CONFIG.thumbnailBucket,
                    Key         |-> [userId |-> event.userId, file |-> name],
                    ContentType |-> processed.mime,
                    Metadata    |-> [originalKey |-> srcKey]])
    /\ trace' = trace \o <<"Transformed", "Named", "PutObject">>
    /\ pc' = "awaitPutObject"
    /\ UNCHANGED <<env, event, s3Object, srcKey, getCalls, chunksRead,
                   totalSize, chunks, imageBuffer, processed, result,
                   thrown, logged>>

\* line 175 rejects
PutObjectRejects ==
    /\ pc = "awaitPutObject"
    /\ \E e \in ProviderErrors : UploadCatch(e)
    /\ UNCHANGED <<env, event, s3Object, srcKey, getCalls, putCalls,
                   chunksRead, totalSize, chunks, imageBuffer, processed,
                   destKey, trace>>

\* lines 175-202: the upload is acknowledged and the handler returns
PutObjectResolves ==
    /\ pc = "awaitPutObject"
    /\ result' = SuccessResponse([userId |-> event.userId, file |-> destKey],
                                 processed.mime)
    /\ trace' = Append(trace, "Published")
    /\ pc' = "returned"
    /\ UNCHANGED <<env, event, s3Object, srcKey, getCalls, putCalls,
                   chunksRead, totalSize, chunks, imageBuffer, processed,
                   destKey, thrown, logged>>

Next ==
    \/ Start
    \/ GetObjectRejects
    \/ GetObjectResolves
    \/ StreamChunk
    \/ StreamFails
    \/ StreamEnds
    \/ JimpReadSettles
    \/ GetBufferRejects
    \/ GetBufferResolves
    \/ PutObjectRejects
    \/ PutObjectResolves

---------------------------------------------------------------------------
(* Initial states *)

NullEvent == [defined |-> FALSE, s3Bucket |-> "", s3Key |-> <<>>, userId |-> ""]

\* "" is a field that is absent
Events ==
    {NullEvent} \cup
    [defined : {TRUE}, s3Bucket : {"", "src"}, s3Key : Keys, userId : {"u1"}]

\* {s3Bucket: "src", s3Key: "2.E", userId: "u1"}
PlainEvent ==
    [defined |-> TRUE, s3Bucket |-> "src", s3Key |-> <<50, 46, 69>>,
     userId |-> "u1"]

DefaultEnv ==
    [MAX_WIDTH |-> 0, MAX_HEIGHT |-> 0, IMAGE_QUALITY |-> 0,
     THUMBNAIL_BUCKET |-> "thumbs", NODE_ENV |-> "production"]

Image(decodes, mime, width, height) ==
    [decodes |-> decodes, mime |-> mime, width |-> width, height |-> height]

Undecodable == Image(FALSE, "", 0, 0)

MiB == 1024 * 1024

\* the objects of the general specification: declared type, chunks, image
SampleObjects ==
    {[ContentType |-> "image/jpeg", chunks |-> <<65536, 1>>,
      image |-> Image(TRUE, "image/jpeg", 100, 100)],
     [ContentType |-> "image/png", chunks |-> <<65536>>,
      image |-> Image(TRUE, "image/png", 4000, 2000)],
     [ContentType |-> "image/jpeg", chunks |-> <<65536>>,
      image |-> Image(TRUE, "image/bmp", 100, 100)],
     [ContentType |-> "image/jpeg", chunks |-> <<65536>>, image |-> Undecodable],
     [ContentType |-> "text/html", chunks |-> <<65536>>, image |-> Undecodable],
     [ContentType |-> "undefined", chunks |-> <<65536>>,
      image |-> Image(TRUE, "image/png", 100, 100)],
     [ContentType |-> "image/gif", chunks |-> <<8 * MiB, 8 * MiB, 1>>,
      image |-> Image(TRUE, "image/gif", 300, 200)]}

InitRest ==
    /\ pc = "start"
    /\ srcKey = <<>>
    /\ getCalls = <<>>
    /\ putCalls = <<>>
    /\ chunksRead = 0
    /\ totalSize = 0
    /\ chunks = <<>>
    /\ imageBuffer = -1
    /\ processed = NoImage
    /\ destKey = generateSecureFilename(<<>>, "", "")
    /\ result = NoResult
    /\ thrown = <<>>
    /\ logged = <<>>
    /\ trace = <<>>

\* any event, with the destination bucket configured or not
Init ==
    /\ env \in [MAX_WIDTH : {0}, MAX_HEIGHT : {0}, IMAGE_QUALITY : {0},
                THUMBNAIL_BUCKET : {"", "thumbs"},
                NODE_ENV : {"production", "development"}]
    /\ event \in Events
    /\ s3Object \in SampleObjects
    /\ InitRest

Spec == Init /\ [][Next]_vars

\* any body stream of at most MaxChunks chunks
ChunkSizes == {1, 65536, 15 * MiB - 1, 15 * MiB, 15 * MiB + 1}

ChunkSeqs == UNION {[1..n -> ChunkSizes] : n \in 0..MaxChunks}

InitStream ==
    /\ env = DefaultEnv
    /\ event = PlainEvent
    /\ s3Object \in {[ContentType |-> "image/jpeg", chunks |-> c,
                      image |-> IF c = <<>> THEN Undecodable
                                ELSE Image(TRUE, "image/jpeg", 100, 100)] :
                     c \in ChunkSeqs}
    /\ InitRest

SpecStream == InitStream /\ [][Next]_vars

\* any configured maxima and any image size
EnvMaxima == {0, 1, 3, 250, 2000, 5000}

ImageDims == {1, 2, 100, 250, 251, 4000, 9999, 10000, 10001, 40000}

InitResize ==
    /\ env \in [MAX_WIDTH : EnvMaxima, MAX_HEIGHT : EnvMaxima,
                IMAGE_QUALITY : {0}, THUMBNAIL_BUCKET : {"thumbs"},
                NODE_ENV : {"production"}]
    /\ event = PlainEvent
    /\ s3Object \in {[ContentType |-> "image/png", chunks |-> <<65536>>,
                      image |-> Image(TRUE, "image/png", w, h)] :
                     w \in ImageDims, h \in ImageDims}
    /\ InitRest

SpecResize == InitResize /\ [][Next]_vars

---------------------------------------------------------------------------
(* Properties *)

Allowed(mime) == mime \in CONFIG.allowedMimeTypes

Failed == thrown # <<>>

StageOrder ==
    <<"Validator", "GetObject", "Fetched", "Transformed", "Named",
      "PutObject", "Published">>

Ran(stage) == \E i \in 1..Len(trace) : trace[i] = stage

\* C1: whenever an exception was raised in an invocation, at whatever
\* stage, the handler has returned (it never rejects) an envelope with
\* statusCode 500 and error.message "Image processing failed", without a
\* thumbnail field, none of whose fields is the message or the stack of an
\* exception raised on the way.
C1_FailureIsSanitized ==
    Failed =>
        /\ pc = "returned"
        /\ DOMAIN result = {"statusCode", "error"}
        /\ result.statusCode = 500
        /\ DOMAIN result.error = {"message", "type"}
        /\ result.error.message = "Image processing failed"
        /\ \A i \in 1..Len(thrown) :
             /\ result.error.type \notin {thrown[i].message, thrown[i].stack}
             /\ result.error.message \notin {thrown[i].message, thrown[i].stack}

\* a provider exception of the upload was caught and the handler returned
C1_Witness ==
    /\ pc = "returned"
    /\ Len(putCalls) = 1
    /\ Len(thrown) = 2
    /\ thrown[1] \in ProviderErrors

\* C2: for an event whose s3Key contains "..", no GetObject and no
\* PutObject request is ever issued, the handler never gets past the
\* Validator, and what it returns is a 500 envelope.
C2_TraversalRejectedBeforeNetwork ==
    (event.defined /\ IncludesDotDot(event.s3Key)) =>
        /\ getCalls = <<>>
        /\ putCalls = <<>>
        /\ ~Ran("Validator")
        /\ pc \in {"start", "returned"}
        /\ pc = "returned" => result.statusCode = 500

\* the key ".." with nothing else wrong was rejected by the traversal check
C2_Witness ==
    /\ pc = "returned"
    /\ event.s3Key = <<46, 46>>
    /\ thrown = <<NewError("Path traversal detected", "index.js:44")>>
    /\ result.statusCode = 500

\* C3: when the handler fails, error.type names the kind of failure of the
\* stage that failed: ValidationError for the Validator, FetchError or
\* FileTooLargeError for the fetch, InvalidFormatError, UnsupportedTypeError
\* or TooLargeError for decode/transform, UploadError for the upload.
C3_TypeNamesFailedStage ==
    (Failed /\ event.defined) =>
        result.error.type \in
            IF ~Ran("Validator") THEN {"ValidationError"}
            ELSE IF ~Ran("Fetched") THEN {"FetchError", "FileTooLargeError"}
            ELSE IF ~Ran("PutObject")
            THEN {"InvalidFormatError", "UnsupportedTypeError", "TooLargeError"}
            ELSE {"UploadError"}

\* the bytes of the first n chunks of the body
RECURSIVE PrefixSum(_, _)
PrefixSum(s, n) == IF n = 0 THEN 0 ELSE PrefixSum(s, n - 1) + s[n]

\* the running total has passed maxFileSize
Overflowed == totalSize > CONFIG.maxFileSize

\* What streamToBuffer does about the size limit, the kind of the failure
\* left aside: the chunks kept never exceed maxFileSize, a buffer is handed
\* on only if it is within maxFileSize, and the chunk that takes the total
\* past maxFileSize is the last one read and ends the invocation.
StreamStaysBounded ==
    /\ Sum(chunks) <= CONFIG.maxFileSize
    /\ totalSize = PrefixSum(s3Object.chunks, chunksRead)
    /\ imageBuffer # -1 => imageBuffer <= CONFIG.maxFileSize
    /\ Overflowed =>
         /\ pc = "returned"
         /\ result.statusCode = 500
         /\ PrefixSum(s3Object.chunks, chunksRead - 1) <= CONFIG.maxFileSize
         /\ Sum(chunks) = PrefixSum(s3Object.chunks, chunksRead - 1)
         /\ imageBuffer = -1

\* C4: streaming keeps a running total and, at the first chunk that takes
\* it past maxFileSize, stops reading and fails with FileTooLargeError; the
\* bytes kept never exceed maxFileSize and a buffer is returned only if it
\* is within maxFileSize.
C4_OversizeFailsWithFileTooLarge ==
    /\ StreamStaysBounded
    /\ Overflowed => result.error.type = "FileTooLargeError"

\* |a - b|
Dist(a, b) == IF a >= b THEN a - b ELSE b - a

\* the size ow x oh has the aspect ratio of w x h within one pixel: scaling
\* w x h to the width ow gives the height oh within 1, or to the height oh
\* gives the width ow within 1
AspectWithinOnePixel(w, h, ow, oh) ==
    \/ Dist(oh * w, ow * h) <= w
    \/ Dist(ow * h, oh * w) <= h

Oversized(img) ==
    img.width > CONFIG.maxWidth \/ img.height > CONFIG.maxHeight

FitsAndKeepsAspect(img, out) ==
    /\ out.width <= CONFIG.maxWidth
    /\ out.height <= CONFIG.maxHeight
    /\ AspectWithinOnePixel(img.width, img.height, out.width, out.height)

\* What the scaling does for images within the 10000 pixel ceiling: an
\* image larger than the maxima is brought within them with its aspect
\* ratio kept within one pixel; a larger image is still brought within the
\* maxima.
ResizeFitsUpToCeiling ==
    (processed # NoImage /\ Oversized(s3Object.image)) =>
        /\ processed.resized
        /\ processed.width <= CONFIG.maxWidth
        /\ processed.height <= CONFIG.maxHeight
        /\ (s3Object.image.width <= 10000 /\ s3Object.image.height <= 10000)
             => FitsAndKeepsAspect(s3Object.image, processed)

\* C5: for every decoded image wider than maxWidth or higher than
\* maxHeight, of any size, above 10000 pixels included, and any maxima in
\* 1..2000, the size resized to is within the maxima and has the source
\* image's aspect ratio within one pixel.
C5_ResizeFitsAndKeepsAspect ==
    (processed # NoImage /\ Oversized(s3Object.image)) =>
        FitsAndKeepsAspect(s3Object.image, processed)

\* the class the key is specified to match: letters, digits and the
\* literal characters ! _ . * ' ( ) - /
LiteralKeyClass(c) ==
    \/ c \in 97..122
    \/ c \in 65..90
    \/ c \in 48..57
    \/ c \in {33, 95, 46, 42, 39, 40, 41, 45, 47}

\* C6: a key is accepted, and a network call made for it, only if every
\* character of it is a letter, a digit or one of ! _ . * ' ( ) - /
C6_OnlyLiteralClassAccepted ==
    Ran("Validator") =>
        \A i \in 1..Len(event.s3Key) : LiteralKeyClass(event.s3Key[i])

\* the decoded MIME type was read and is outside the allow-list
DecodedTypeRefused ==
    /\ Ran("Fetched")
    /\ pc = "returned"
    /\ s3Object.image.decodes
    /\ ~Allowed(s3Object.image.mime)

\* What the check of the decoded MIME type does, the kind of the failure
\* left aside: a decoded type outside the allow-list ends the invocation
\* with a 500 and without an upload, whatever the store declared, and a
\* 200 carries the decoded type, which is in the allow-list.
DecodedTypeEnforced ==
    /\ DecodedTypeRefused =>
         /\ Allowed(s3Object.ContentType)
         /\ result.statusCode = 500
         /\ putCalls = <<>>
    /\ result.statusCode = 200 =>
         /\ result.thumbnail.contentType = s3Object.image.mime
         /\ Allowed(result.thumbnail.contentType)
         /\ putCalls[1].ContentType = s3Object.image.mime

\* C7: a decoded MIME type outside the allow-list fails the invocation
\* with UnsupportedTypeError and nothing is uploaded, even when the
\* declared Content-Type was allowed; every 200 carries the decoded MIME
\* type, which is in the allow-list.
C7_UnsupportedTypeError ==
    /\ DecodedTypeEnforced
    /\ DecodedTypeRefused => result.error.type = "UnsupportedTypeError"

\* C8: the stages run in the order Validator, Bounded Fetcher, Image
\* Transformer, Secure Namer, Publisher: at most one GetObject and one
\* PutObject are issued; PutObject is issued only after validation passed,
\* the object was fetched and read to its end and the transform succeeded;
\* a 200 is returned only after PutObject succeeded; after a failure
\* nothing more runs.
C8_StagesInOrder ==
    /\ Len(getCalls) <= 1
    /\ Len(putCalls) <= 1
    /\ trace = SubSeq(StageOrder, 1, Len(trace))
    /\ Len(getCalls) = (IF Ran("GetObject") THEN 1 ELSE 0)
    /\ Len(putCalls) = (IF Ran("PutObject") THEN 1 ELSE 0)
    /\ putCalls # <<>> =>
         /\ validateInput(event).ok
         /\ Allowed(s3Object.ContentType)
         /\ chunksRead = Len(s3Object.chunks)
         /\ imageBuffer = Sum(s3Object.chunks)
         /\ processed = Transform(s3Object.image)
         /\ Allowed(processed.mime)
    /\ result.statusCode = 200 =>
         /\ ~Failed
         /\ trace = StageOrder
    /\ Failed => pc = "returned" /\ ~Ran("Published")
    /\ pc = "returned" => ~ENABLED Next

\* a thumbnail was published
C8_Witness ==
    /\ pc = "returned"
    /\ result.statusCode = 200
    /\ Len(getCalls) = 1
    /\ Len(putCalls) = 1

\* C9: when the store reports a Content-Type outside the allow-list, no
\* chunk of the body is ever read, and neither the transform nor the
\* upload runs.
C9_DeclaredTypeRefusedBeforeReading ==
    ~Allowed(s3Object.ContentType) =>
        /\ chunksRead = 0
        /\ chunks = <<>>
        /\ imageBuffer = -1
        /\ processed = NoImage
        /\ putCalls = <<>>
        /\ pc \in {"start", "awaitGetObject", "returned"}

\* GetObject answered with text/html and the handler returned
C9_Witness ==
    /\ pc = "returned"
    /\ Len(getCalls) = 1
    /\ s3Object.ContentType = "text/html"
    /\ Len(thrown) = 2
    /\ thrown[1] = NewError("Invalid content type", "index.js:157")

\* C10: for an event that passes the Validator, the key of the GetObject
\* request, also recorded as original-key, is s3Key with each '+' replaced
\* by a space; it contains no ".." and percent-decoding never fails.
C10_DecodingAddsNothing ==
    /\ \A i \in 1..Len(thrown) : thrown[i].name # "URIError"
    /\ Ran("Validator") => Ran("GetObject")
    /\ getCalls # <<>> =>
         /\ getCalls[1].Key = ReplacePlus(event.s3Key)
         /\ srcKey = getCalls[1].Key
         /\ ~IncludesDotDot(getCalls[1].Key)
    /\ putCalls # <<>> =>
         putCalls[1].Metadata.originalKey = ReplacePlus(event.s3Key)

\* a key with a '+' was fetched, as a key with a space, and published
C10_Witness ==
    /\ putCalls # <<>>
    /\ \E i \in 1..Len(event.s3Key) : event.s3Key[i] = 43
    /\ \E i \in 1..Len(srcKey) : srcKey[i] = 32

===========================================================================
